---- MODULE Spec2Model ----
(***************************************************************************)
(* Model of doskhiApi.py: the Flask handlers generate_podcast and          *)
(* download_audio, the module-level client initialisation, and the files   *)
(* they share under BASE_AUDIO_PATH.                                       *)
(*                                                                         *)
(* A Python str is a sequence of one-character strings, so that strip(),   *)
(* replace(" ", "_"), pathlib's "/" operator and the URL rule are computed *)
(* as the code computes them.  A pathlib.Path is a record                  *)
(* [abs, parts]: whether it is anchored at "/" and its components.         *)
(*                                                                         *)
(* Upstream libraries are modelled at the boundary the handlers use:       *)
(*   - generate_content / response.text return text or raise;              *)
(*   - audio.speech.create returns a stream or raises;                     *)
(*   - stream_to_file opens the destination with mode "wb" (truncating)    *)
(*     and writes the stream chunk by chunk at its own file offset;        *)
(*   - send_file opens the path for reading and raises on a directory.     *)
(* The process runs with its working directory equal to the application    *)
(* root, so that exists() and send_file look at the same file.             *)
(***************************************************************************)
EXTENDS Naturals, Sequences, FiniteSets

\* ------------------------------------------------------------------ bounds

\* Number of POST /generate-podcast requests of a run.
MaxReq == 2
\* Largest number of chunks of a synthesised audio stream.
MaxChunks == 2

\* ------------------------------------------------------- string literals

sCourageAndConsent == <<"C","o","u","r","a","g","e","A","n","d","C","o","n","s","e","n","t">>
sHealthAndHygiene == <<"H","e","a","l","t","h","A","n","d","H","y","g","i","e","n","e">>
sKnowYourRights == <<"K","n","o","w","Y","o","u","r","R","i","g","h","t","s">>
sMindMatters == <<"M","i","n","d","M","a","t","t","e","r","s">>
sSafetyAndBoundaries == <<"S","a","f","e","t","y","A","n","d","B","o","u","n","d","a","r","i","e","s">>
sAudioFiles == <<"a","u","d","i","o","F","i","l","e","s">>
sTopics == <<"t","o","p","i","c","s">>
sCustomTopics == <<"C","u","s","t","o","m","T","o","p","i","c","s">>
sMp3 == <<".","m","p","3">>
sStreamAudio == <<"s","t","r","e","a","m","-","a","u","d","i","o">>
sUrlPrefix == <<"/","s","t","r","e","a","m","-","a","u","d","i","o","/">>
sUrlCustomPrefix == <<"/","s","t","r","e","a","m","-","a","u","d","i","o","/","C","u","s","t","o","m","T","o","p","i","c","s","/">>
sSavingWater == <<"S","a","v","i","n","g"," ","W","a","t","e","r">>
sSaving_Water == <<"S","a","v","i","n","g","_","W","a","t","e","r">>
sMindMattersMp3 == <<"M","i","n","d","M","a","t","t","e","r","s",".","m","p","3">>
sX == <<"x">>
sXMp3 == <<"x",".","m","p","3">>
sSlashTmp == <<"/","t","m","p">>
sBlank == <<" "," ">>

\* ------------------------------------------------------------ str methods

RECURSIVE lstrip(_)
lstrip(s) == IF s # <<>> /\ Head(s) = " " THEN lstrip(Tail(s)) ELSE s

RECURSIVE rstrip(_)
rstrip(s) ==
  IF s # <<>> /\ s[Len(s)] = " " THEN rstrip(SubSeq(s, 1, Len(s) - 1)) ELSE s

\* str.strip()
strip(s) == rstrip(lstrip(s))

\* str.replace(" ", "_")
replace(s) == [i \in 1..Len(s) |-> IF s[i] = " " THEN "_" ELSE s[i]]

\* a or b  for two str values
StrOr(a, b) == IF a # <<>> THEN a ELSE b

\* ---------------------------------------------------------------- pathlib

\* The components of a path string: split at "/", empty and "." components
\* dropped.
RECURSIVE SplitFrom(_, _, _)
SplitFrom(s, i, cur) ==
  LET flush == IF cur = <<>> \/ cur = <<".">> THEN <<>> ELSE <<cur>>
  IN IF i > Len(s) THEN flush
     ELSE IF s[i] = "/" THEN flush \o SplitFrom(s, i + 1, <<>>)
     ELSE SplitFrom(s, i + 1, Append(cur, s[i]))

Components(s) == SplitFrom(s, 1, <<>>)

\* Path / str : an operand anchored at "/" replaces the path so far.
PathJoin(p, s) ==
  IF s # <<>> /\ s[1] = "/"
  THEN [abs |-> TRUE, parts |-> Components(s)]
  ELSE [abs |-> p.abs, parts |-> p.parts \o Components(s)]

Parent(p) == [abs |-> p.abs, parts |-> SubSeq(p.parts, 1, Len(p.parts) - 1)]

\* The path itself and all its ancestors below the anchor.
Ancestors(p) ==
  { [abs |-> p.abs, parts |-> SubSeq(p.parts, 1, k)] : k \in 1..Len(p.parts) }

NoPath == [abs |-> FALSE, parts |-> <<>>]

\* ------------------------------------------------------- module constants

BASE_AUDIO_PATH == [abs |-> FALSE, parts |-> <<sAudioFiles, sTopics>>]

ThemeIds ==
  {sCourageAndConsent, sHealthAndHygiene, sKnowYourRights, sMindMatters,
   sSafetyAndBoundaries}

THEMES ==
  [t \in ThemeIds |->
     CASE t = sCourageAndConsent ->
            "Stories about empowerment, making informed choices, and understanding consent."
       [] t = sHealthAndHygiene ->
            "Educational stories about physical health, cleanliness, and menstrual awareness."
       [] t = sKnowYourRights ->
            "Informative stories about legal rights, gender equality, and self-advocacy."
       [] t = sMindMatters ->
            "Narratives that focus on mental health, emotional intelligence, and resilience."
       [] t = sSafetyAndBoundaries ->
            "Stories about personal safety, setting boundaries, and recognizing red flags."]

CustomFallback == "This is a custom topic. Create an informative and engaging story."

\* ------------------------------------------------------------------ inputs

\* dict.get(key, default)
Get(data, key, default) == IF key \in DOMAIN data THEN data[key] ELSE default

\* float(x) succeeds on these temperature values and raises on any other.
Floatable == {"0.7", "1.5"}

\* JSON bodies of POST /generate-podcast.
Bodies ==
  { [language |-> "English"],
    [topic |-> sBlank, custom_topic |-> sBlank, voice |-> "alloy"],
    [topic |-> sBlank, temperature |-> "abc"],
    [topic |-> sMindMatters, language |-> "English"],
    [topic |-> <<" ">> \o sKnowYourRights, temperature |-> "1.5"],
    [custom_topic |-> sSavingWater],
    [topic |-> sX],
    [topic |-> sX, custom_topic |-> sSavingWater \o <<" ">>],
    [custom_topic |-> sSlashTmp] }

\* The <category>, <filename> pairs tried by GET /stream-audio/...: where a
\* theme's audio is written, a folder of a custom topic, a file written
\* straight into CustomTopics, and two places nothing is written to.
GetTargets ==
  { <<sMindMatters, sMindMattersMp3>>, <<sCustomTopics, sSaving_Water>>,
    <<sCustomTopics, sXMp3>>, <<sX, sXMp3>>, <<sMindMatters, sXMp3>> }

Requests == 1..MaxReq

NoScript == 0
NoUrl == <<>>
NoPrompt == [language |-> "", about |-> <<>>, description |-> ""]
NoResponse ==
  [code |-> 0, status |-> "", script |-> NoScript, audio_url |-> NoUrl,
   message |-> ""]

\* ------------------------------------------------------------------- state

VARIABLES
  OPENAI_API_KEY,  \* whether the credential is set in the environment
  openai_client,   \* whether the module-level client was constructed
  req,             \* the generate_podcast invocations, by arrival order:
                   \* their locals, and a record of what each has done
                   \* (generation, synthesis: how the upstream calls ended;
                   \* log: the steps taken, in order)
  dirs,            \* the directories that exist
  files,           \* the regular files that exist: path -> the writer
                   \* of each chunk (data), who opened the file last
                   \* (opener) and who left stream_to_file last (closer)
  getResp          \* the response of the latest GET

vars == <<OPENAI_API_KEY, openai_client, req, dirs, files, getResp>>

IdleRequest ==
  [pc |-> "idle", data |-> [language |-> "English"], topic |-> <<>>,
   custom_topic |-> <<>>, language |-> "", voice |-> "", temperature |-> "",
   audio_folder |-> NoPath, prompt |-> NoPrompt, podcast_script |-> NoScript,
   filename |-> <<>>, speech_file_path |-> NoPath, audio_url |-> NoUrl,
   audio_len |-> 0, written |-> 0, response |-> NoResponse,
   generation |-> "", synthesis |-> "", log |-> <<>>]

NoGet ==
  [kind |-> "none", for |-> 0, routed |-> FALSE, code |-> 0, mimetype |-> "",
   message |-> "", body |-> <<>>, wasFile |-> FALSE, wasDir |-> FALSE,
   opener |-> 0, openerDone |-> FALSE, partial |-> FALSE]

\* Module import: the client exists only if the key is set and the
\* constructor did not raise.
Init ==
  /\ OPENAI_API_KEY \in BOOLEAN
  /\ openai_client \in (IF OPENAI_API_KEY THEN BOOLEAN ELSE {FALSE})
  /\ req = [r \in Requests |-> IdleRequest]
  /\ dirs = {}
  /\ files = <<>>
  /\ getResp = NoGet

\* -------------------------------------------------------- generate_podcast

ErrorResponse(code, message) ==
  [code |-> code, status |-> "error", script |-> NoScript,
   audio_url |-> NoUrl, message |-> message]

\* except Exception as e: return jsonify(status error, message str(e)), 500
Raise(rec, message) ==
  [rec EXCEPT !.pc = "done", !.response = ErrorResponse(500, message),
              !.log = Append(@, "respond")]

\* if not topic and not custom_topic: the request is rejected
Validate(topic, custom_topic) == ~(topic = <<>> /\ custom_topic = <<>>)

\* Determine the storage path
ResolveFolder(topic, custom_topic) ==
  IF topic \in DOMAIN THEMES
  THEN PathJoin(BASE_AUDIO_PATH, topic)
  ELSE PathJoin(PathJoin(BASE_AUDIO_PATH, sCustomTopics), replace(custom_topic))

\* The f-string prompt: the parts of it that depend on the request.
BuildPrompt(language, topic, custom_topic) ==
  [language |-> language, about |-> StrOr(topic, custom_topic),
   description |-> Get(THEMES, topic, CustomFallback)]

FileName(topic, custom_topic) == replace(StrOr(topic, custom_topic)) \o sMp3

AudioUrl(topic, custom_topic, filename) ==
  IF topic # <<>>
  THEN sUrlPrefix \o topic \o <<"/">> \o filename
  ELSE sUrlCustomPrefix \o custom_topic \o <<"/">> \o filename

\* Lines 45-54: read the JSON body, coerce, validate.
Receive(r, data) ==
  /\ req[r].pc = "idle"
  /\ \A q \in Requests : q < r => req[q].pc # "idle"
  /\ LET topic == strip(Get(data, "topic", <<>>))
         custom_topic == strip(Get(data, "custom_topic", <<>>))
         temperature == Get(data, "temperature", "0.7")
         got == [req[r] EXCEPT !.data = data, !.topic = topic,
                               !.custom_topic = custom_topic,
                               !.language = Get(data, "language", "Hindi"),
                               !.voice = Get(data, "voice", "coral")]
     IN req' = [req EXCEPT ![r] =
          IF temperature \notin Floatable
          THEN Raise(got, "could not convert string to float")
          ELSE IF ~Validate(topic, custom_topic)
          THEN [got EXCEPT !.temperature = temperature, !.pc = "done",
                  !.response =
                     ErrorResponse(400, "Please provide a topic or custom topic"),
                  !.log = <<"validate", "respond">>]
          ELSE [got EXCEPT !.temperature = temperature, !.pc = "mkdir",
                           !.log = <<"validate">>]]
  /\ UNCHANGED <<OPENAI_API_KEY, openai_client, dirs, files, getResp>>

\* Lines 56-65: resolve the folder, then mkdir(parents=True, exist_ok=True).
\* mkdir raises when a component of the path is a regular file, and may
\* raise when the operating system denies the creation.
EnsureFolder(r) ==
  /\ req[r].pc = "mkdir"
  /\ LET audio_folder == ResolveFolder(req[r].topic, req[r].custom_topic)
         got == [req[r] EXCEPT !.audio_folder = audio_folder,
                               !.log = Append(@, "mkdir")]
     IN \/ /\ Ancestors(audio_folder) \cap DOMAIN files = {}
           /\ dirs' = dirs \cup Ancestors(audio_folder)
           /\ req' = [req EXCEPT ![r] = [got EXCEPT !.pc = "generate"]]
        \/ /\ dirs' = dirs
           /\ req' = [req EXCEPT ![r] = Raise(got, "mkdir failed")]
  /\ UNCHANGED <<OPENAI_API_KEY, openai_client, files, getResp>>

\* Variant: the synthesis is attempted whether or not a client exists.
PcAfterScript_Unguarded(client) == "speech"

\* if openai_client: ... ; otherwise straight to the response
PcAfterScript(client) == IF client THEN "speech" ELSE "respond"

\* Variant: a failed generation is swallowed like a failed synthesis, and the
\* handler goes on without a script.
OnGenerationFailure_Swallowed(rec, message) == [rec EXCEPT !.pc = "speech"]

\* Variant: a failed generation is retried.
OnGenerationFailure_Retry(rec, message) == [rec EXCEPT !.pc = "generate"]

\* generate_content raised, or response.text raised for lack of text: the
\* exception reaches the handler's outer except.
OnGenerationFailure(rec, message) == Raise(rec, message)

\* Lines 67-101: build the prompt, call the model, read response.text, name
\* the file.
GenerateScript(r) ==
  /\ req[r].pc = "generate"
  /\ LET got == [req[r] EXCEPT
                   !.prompt = BuildPrompt(req[r].language, req[r].topic,
                                          req[r].custom_topic),
                   !.log = Append(@, "generate")]
         failed(outcome) == [got EXCEPT !.generation = outcome]
         filename == FileName(req[r].topic, req[r].custom_topic)
     IN \E outcome \in {"text", "raises", "no text"} :
          req' = [req EXCEPT ![r] =
            IF outcome = "text"
            THEN [got EXCEPT !.generation = "text",
                    !.podcast_script = r, !.filename = filename,
                    !.speech_file_path = PathJoin(req[r].audio_folder, filename),
                    !.audio_url = NoUrl,
                    !.pc = PcAfterScript(openai_client)]
            ELSE OnGenerationFailure(failed(outcome), outcome)]
  /\ UNCHANGED <<OPENAI_API_KEY, openai_client, dirs, files, getResp>>

\* Variant: the inner try is missing, a failed synthesis reaches the outer
\* except.
OnSpeechFailure_Propagates(rec) == Raise(rec, "OpenAI TTS failed")

\* except Exception as e: print(Warning ...) -- audio_url stays None and the
\* handler goes on to its success response.
OnSpeechFailure(rec) == [rec EXCEPT !.pc = "respond"]

\* Line 104: audio.speech.create(model, voice, input=podcast_script).
SpeechCreate(r) ==
  /\ req[r].pc = "speech"
  /\ LET got == [req[r] EXCEPT !.log = Append(@, "speech")]
     IN \/ \E n \in 1..MaxChunks :
             req' = [req EXCEPT ![r] = [got EXCEPT !.audio_len = n,
                                                   !.pc = "stream"]]
        \/ req' = [req EXCEPT ![r] =
                     OnSpeechFailure([got EXCEPT !.synthesis = "failed"])]
  /\ UNCHANGED <<OPENAI_API_KEY, openai_client, dirs, files, getResp>>

\* Variant: the destination is opened without truncation ("r+b").
OpenWb_NoTruncate(data) == data

\* open(path, "wb") on a file holding `data`: the file is truncated.
OpenWb(data) == <<>>

\* Variant: the destination is opened in append mode, every write lands at
\* the end of the file.
WriteAt_Append(data, pos, w) == Append(data, w)

\* f.write(chunk) by writer w at its own offset pos: bytes skipped over read
\* as a hole (writer 0).
WriteAt(data, pos, w) ==
  [i \in 1..(IF Len(data) > pos THEN Len(data) ELSE pos) |->
     IF i = pos THEN w ELSE IF i <= Len(data) THEN data[i] ELSE 0]

SetFile(p, v) == [q \in DOMAIN files \cup {p} |-> IF q = p THEN v ELSE files[q]]

IsDir(p) == p.parts = <<>> \/ p \in dirs

\* Line 109, first part: stream_to_file opens the destination for writing.
\* The open raises if the parent is no directory or the path is one, and may
\* raise when the operating system denies it.
StreamOpen(r) ==
  /\ req[r].pc = "stream"
  /\ LET p == req[r].speech_file_path
         got == [req[r] EXCEPT !.log = Append(@, "write")]
     IN \/ /\ IsDir(Parent(p))
           /\ ~IsDir(p)
           /\ files' = SetFile(p, [data |-> OpenWb(IF p \in DOMAIN files
                                                   THEN files[p].data ELSE <<>>),
                                   opener |-> r,
                                   closer |-> IF p \in DOMAIN files
                                              THEN files[p].closer ELSE 0])
           /\ req' = [req EXCEPT ![r] = [got EXCEPT !.pc = "write"]]
        \/ /\ files' = files
           /\ req' = [req EXCEPT ![r] =
                        OnSpeechFailure([got EXCEPT !.synthesis = "failed"])]
  /\ UNCHANGED <<OPENAI_API_KEY, openai_client, dirs, getResp>>

\* Line 109, the loop of stream_to_file, and line 110 once it returns: one
\* chunk is written, or the write raises.
StreamWrite(r) ==
  /\ req[r].pc = "write"
  /\ LET p == req[r].speech_file_path
         pos == req[r].written + 1
     IN \/ /\ files' = SetFile(p, [files[p] EXCEPT
                                     !.data = WriteAt(@, pos, r),
                                     !.closer = IF pos = req[r].audio_len
                                                THEN r ELSE @])
           /\ req' = [req EXCEPT ![r] =
                IF pos = req[r].audio_len
                THEN [req[r] EXCEPT !.written = pos, !.pc = "respond",
                        !.synthesis = "ok",
                        !.audio_url = AudioUrl(req[r].topic,
                                         req[r].custom_topic, req[r].filename)]
                ELSE [req[r] EXCEPT !.written = pos]]
        \/ /\ files' = SetFile(p, [files[p] EXCEPT !.closer = r])
           /\ req' = [req EXCEPT ![r] =
                        OnSpeechFailure([req[r] EXCEPT !.synthesis = "failed"])]
  /\ UNCHANGED <<OPENAI_API_KEY, openai_client, dirs, getResp>>

\* Lines 114-118: the success response.
Respond(r) ==
  /\ req[r].pc = "respond"
  /\ req' = [req EXCEPT ![r] = [req[r] EXCEPT !.pc = "done",
               !.response = [code |-> 200, status |-> "success",
                             script |-> req[r].podcast_script,
                             audio_url |-> req[r].audio_url, message |-> ""],
               !.log = Append(@, "respond")]]
  /\ UNCHANGED <<OPENAI_API_KEY, openai_client, dirs, files, getResp>>

\* ---------------------------------------------------------- download_audio

\* A writer is inside stream_to_file on path p.
BeingWritten(p) ==
  \E q \in Requests : req[q].pc = "write" /\ req[q].speech_file_path = p

\* The request that opened p last has returned its response with an audio_url.
OpenerDone(p) ==
  /\ p \in DOMAIN files
  /\ req[files[p].opener].pc = "done"
  /\ req[files[p].opener].audio_url # NoUrl

\* download_audio(category, filename): exists() is true of files and of
\* directories; send_file answers a file and raises on a directory.
download_audio(kind, for, category, filename) ==
  LET file_path == PathJoin(PathJoin(BASE_AUDIO_PATH, category), filename)
      isFile == file_path \in DOMAIN files
      isDir == file_path \in dirs
      seen == [NoGet EXCEPT !.kind = kind, !.for = for, !.routed = TRUE,
                            !.wasFile = isFile, !.wasDir = isDir]
  IN IF isFile
     THEN [seen EXCEPT !.code = 200, !.mimetype = "audio/mpeg",
                       !.body = files[file_path].data,
                       !.opener = files[file_path].opener,
                       !.openerDone = OpenerDone(file_path),
                       !.partial = BeingWritten(file_path)]
     ELSE IF isDir
     THEN [seen EXCEPT !.code = 500, !.message = "Is a directory"]
     ELSE [seen EXCEPT !.code = 404, !.message = "File not found"]

\* GET /stream-audio/<category>/<filename>
StreamAudio ==
  /\ \E t \in GetTargets :
       getResp' = download_audio("direct", 0, t[1], t[2])
  /\ UNCHANGED <<OPENAI_API_KEY, openai_client, req, dirs, files>>

\* The rule /stream-audio/<category>/<filename>: each placeholder matches one
\* non-empty segment without "/"; repeated slashes are merged.
Route(kind, for, url) ==
  LET segs == Components(url)
  IN IF Len(segs) = 3 /\ segs[1] = sStreamAudio
     THEN download_audio(kind, for, segs[2], segs[3])
     ELSE [NoGet EXCEPT !.kind = kind, !.for = for, !.code = 404,
                        !.message = "Not Found"]

\* A client GETs the audio_url that request r returned.
FollowAudioUrl(r) ==
  /\ req[r].pc = "done"
  /\ req[r].response.audio_url # NoUrl
  /\ getResp' = Route("url", r, req[r].response.audio_url)
  /\ UNCHANGED <<OPENAI_API_KEY, openai_client, req, dirs, files>>

\* ----------------------------------------------------------- specification

Next ==
  \/ \E r \in Requests, data \in Bodies : Receive(r, data)
  \/ \E r \in Requests : EnsureFolder(r)
  \/ \E r \in Requests : GenerateScript(r)
  \/ \E r \in Requests : SpeechCreate(r)
  \/ \E r \in Requests : StreamOpen(r)
  \/ \E r \in Requests : StreamWrite(r)
  \/ \E r \in Requests : Respond(r)
  \/ StreamAudio
  \/ \E r \in Requests : FollowAudioUrl(r)

Spec == Init /\ [][Next]_vars

\* The same handlers when a client issues its POST requests one after the
\* other: a request is sent only once the previous response has arrived.
ReceiveSerial(r, data) ==
  /\ \A q \in Requests : req[q].pc \in {"idle", "done"}
  /\ Receive(r, data)

NextSerial ==
  \/ \E r \in Requests, data \in Bodies : ReceiveSerial(r, data)
  \/ \E r \in Requests : EnsureFolder(r)
  \/ \E r \in Requests : GenerateScript(r)
  \/ \E r \in Requests : SpeechCreate(r)
  \/ \E r \in Requests : StreamOpen(r)
  \/ \E r \in Requests : StreamWrite(r)
  \/ \E r \in Requests : Respond(r)
  \/ StreamAudio
  \/ \E r \in Requests : FollowAudioUrl(r)

SpecSerial == Init /\ [][NextSerial]_vars

\* ------------------------------------------------------------------ claims

Called(r, step) == \E i \in 1..Len(req[r].log) : req[r].log[i] = step

\* The complete audio of request r: audio_len chunks, all its own.
Full(r) == [i \in 1..req[r].audio_len |-> r]

SuccessResponse(r, audio_url) ==
  [code |-> 200, status |-> "success", script |-> req[r].podcast_script,
   audio_url |-> audio_url, message |-> ""]

\* C1: a request whose topic and custom_topic are both empty after trimming
\* is answered 400 with status "error", whatever its other fields, and
\* creates no directory, writes no file and makes no upstream call.
C1_EmptyTopicsRejected ==
  \A r \in Requests :
    ( /\ req[r].pc # "idle"
      /\ strip(Get(req[r].data, "topic", <<>>)) = <<>>
      /\ strip(Get(req[r].data, "custom_topic", <<>>)) = <<>> )
    => /\ req[r].pc = "done"
       /\ req[r].response.code = 400
       /\ req[r].response.status = "error"
       /\ \A step \in {"mkdir", "generate", "speech", "write"} : ~Called(r, step)

\* C2: when the text-generation call of a validated request raises or yields
\* no text, the response is 500 with status "error" and the exception's
\* message, the synthesizer is not invoked and no audio file is opened.
C2_GenerationFailureIs500 ==
  \A r \in Requests :
    req[r].generation \in {"raises", "no text"}
    => /\ req[r].pc = "done"
       /\ req[r].response = ErrorResponse(500, req[r].generation)
       /\ ~Called(r, "speech")
       /\ ~Called(r, "write")
       /\ \A p \in DOMAIN files : r \notin {files[p].opener, files[p].closer}

C2_Witness ==
  \E r \in Requests :
    /\ req[r].generation = "no text"
    /\ req[r].response.code = 500
    /\ Called(r, "mkdir")
    /\ openai_client

\* C3: when the script was generated and the synthesis call or the audio
\* write then fails, the response is still 200 "success" with the script and
\* a null audio_url.
C3_SynthesisFailureSwallowed ==
  \A r \in Requests :
    req[r].synthesis = "failed"
    => /\ req[r].pc \in {"respond", "done"}
       /\ req[r].podcast_script # NoScript
       /\ req[r].audio_url = NoUrl
       /\ req[r].pc = "done" => req[r].response = SuccessResponse(r, NoUrl)

C3_Witness ==
  \E r \in Requests :
    /\ req[r].synthesis = "failed"
    /\ req[r].written = 1
    /\ req[r].pc = "done"
    /\ req[r].response.code = 200

\* C4: with no synthesis client (credential absent, or construction failed),
\* a validated request whose script is generated answers "success" with the
\* script and a null audio_url, makes no synthesis call and writes no file.
C4_NoClientNoAudio ==
  ~openai_client
  => /\ DOMAIN files = {}
     /\ \A r \in Requests :
          req[r].generation = "text"
          => /\ req[r].pc \in {"respond", "done"}
             /\ ~Called(r, "speech")
             /\ ~Called(r, "write")
             /\ req[r].pc = "done" => req[r].response = SuccessResponse(r, NoUrl)

C4_Witness ==
  /\ OPENAI_API_KEY
  /\ ~openai_client
  /\ \E r \in Requests :
       /\ req[r].generation = "text"
       /\ req[r].pc = "done"
       /\ req[r].response.status = "success"
       /\ req[r].response.script = r

\* The directory named by a path string relative to the working directory.
sBase == <<"a","u","d","i","o","F","i","l","e","s","/","t","o","p","i","c","s","/">>
RefDirectory(s) == [abs |-> FALSE, parts |-> Components(sBase \o s)]

\* C5: for a registry topic the directory is audioFiles/topics/<topic> and
\* the prompt embeds the registry description; for any other topic with a
\* non-empty custom_topic the directory is
\* audioFiles/topics/CustomTopics/<custom_topic, spaces as underscores>; the
\* file name is the topic text, spaces as underscores, plus ".mp3".
C5_StorageResolution ==
  \A r \in Requests :
    Called(r, "mkdir")
    => /\ req[r].topic \in ThemeIds
          => /\ req[r].audio_folder = RefDirectory(req[r].topic)
             /\ Called(r, "generate")
                => req[r].prompt.description = THEMES[req[r].topic]
       /\ (req[r].topic \notin ThemeIds /\ req[r].custom_topic # <<>>)
          => req[r].audio_folder =
               RefDirectory(sCustomTopics \o <<"/">> \o replace(req[r].custom_topic))
       /\ req[r].generation = "text"
          => req[r].filename =
               replace(IF req[r].topic # <<>> THEN req[r].topic
                       ELSE req[r].custom_topic) \o sMp3

\* C6: the same request issued twice, one after the other, synthesis
\* succeeding both times: both write the same path, the file holds the
\* second call's audio alone, and a GET after a completed call returns a
\* fully written file.
C6_SerialIdempotence ==
  /\ \A r1, r2 \in Requests :
       ( /\ req[r1].data = req[r2].data
         /\ req[r1].synthesis = "ok"
         /\ req[r2].synthesis = "ok" )
       => req[r1].speech_file_path = req[r2].speech_file_path
  /\ \A p \in DOMAIN files : OpenerDone(p) => files[p].data = Full(files[p].opener)
  /\ (getResp.code = 200 /\ getResp.openerDone)
     => getResp.body = Full(getResp.opener)

C6_Witness ==
  /\ req[1].pc = "done"
  /\ req[2].pc = "done"
  /\ req[1].data = req[2].data
  /\ req[1].response.audio_url # NoUrl
  /\ req[2].response.audio_url # NoUrl
  /\ req[1].audio_len > req[2].audio_len
  /\ files[req[2].speech_file_path].data = Full(2)
  /\ getResp.code = 200
  /\ getResp.opener = 2
  /\ getResp.body = Full(2)

\* C7 as stated: once the overlapping writes have finished, the file holds
\* the audio of whichever write finished last.
C7_LastFinisherWins ==
  \A p \in DOMAIN files :
    ( /\ ~BeingWritten(p)
      /\ files[p].closer # 0
      /\ req[files[p].closer].synthesis = "ok" )
    => files[p].data = Full(files[p].closer)

\* C7, amended: once the writes to a file have finished, the file is at
\* least as long as the audio of whichever write finished last and holds
\* that write's final chunk at its position; the positions before it may
\* hold another request's chunks.
C7_LastChunkOfLastFinisher ==
  \A p \in DOMAIN files :
    ( /\ ~BeingWritten(p)
      /\ files[p].closer # 0
      /\ req[files[p].closer].synthesis = "ok" )
    => /\ Len(files[p].data) >= req[files[p].closer].audio_len
       /\ files[p].data[req[files[p].closer].audio_len] = files[p].closer

\* Two requests are inside stream_to_file on the same path, and a GET has
\* been answered 200 with the file while it held less than its opener's audio.
C7_Witness ==
  /\ \E r1, r2 \in Requests :
       /\ r1 # r2
       /\ req[r1].pc = "write"
       /\ req[r2].pc = "write"
       /\ req[r1].speech_file_path = req[r2].speech_file_path
       /\ req[r1].data = req[r2].data
  /\ getResp.code = 200
  /\ getResp.partial
  /\ Len(getResp.body) < req[getResp.opener].audio_len

\* C8: GET /stream-audio/<category>/<filename> answers the file as
\* audio/mpeg exactly when a file exists at that path, and 404
\* "File not found" in every other case.
C8_FileOr404 ==
  getResp.kind = "direct"
  => /\ getResp.wasFile <=> (getResp.code = 200 /\ getResp.mimetype = "audio/mpeg")
     /\ ~getResp.wasFile
        => (getResp.code = 404 /\ getResp.message = "File not found")

\* C9: a GET of a returned non-null audio_url is routed to download_audio
\* and answered with the file.
C9_AudioUrlRoundTrip ==
  getResp.kind = "url" => (getResp.routed /\ getResp.code = 200)

Rank(step) ==
  CASE step = "validate" -> 1 [] step = "mkdir" -> 2 [] step = "generate" -> 3
    [] step = "speech" -> 4 [] step = "write" -> 5 [] step = "respond" -> 6

\* C10: within one request the steps happen in the order validation,
\* directory creation, generation, synthesis with file write, response, each
\* at most once and none before its predecessor; the synthesis is called
\* only once the generation has returned text.
C10_StepOrder ==
  \A r \in Requests :
    LET log == req[r].log
    IN /\ \A i \in 1..Len(log) : \A j \in 1..Len(log) :
            i < j => Rank(log[i]) < Rank(log[j])
       /\ Called(r, "mkdir") => Called(r, "validate")
       /\ Called(r, "generate") => Called(r, "mkdir")
       /\ Called(r, "speech") => (Called(r, "generate") /\ req[r].generation = "text")
       /\ Called(r, "write") => Called(r, "speech")
       /\ req[r].pc = "done" <=> Called(r, "respond")

C10_Witness ==
  \E r \in Requests :
    req[r].log = <<"validate", "mkdir", "generate", "speech", "write", "respond">>

====
